---- MODULE Spec2Model ----
(***************************************************************************)
(* Task-management API of nestjs-masterclass: AuthService (signUp/signIn), *)
(* the JWT strategy behind AuthGuard(), TasksController and the            *)
(* TasksService it delegates to, over a user table and a task table.       *)
(*                                                                         *)
(* Optional values (null / undefined / a missing header) are sets with at  *)
(* most one element: {} is "absent".  Texts (title, description, search)   *)
(* are sequences of one-character strings so that LOWER and LIKE can be    *)
(* computed.                                                               *)
(***************************************************************************)
EXTENDS Integers, Sequences, FiniteSets, TLC

VARIABLES
    users,      \* rows of the "users" table: [id, username, password]
    tasks,      \* rows of the "tasks" table: [id, title, description, status, user]
    issued,     \* [holder, token]: the access tokens signIn handed out, and to whom
    now,        \* wall clock, in seconds
    userSeq,    \* number of user ids generated so far
    taskSeq,    \* number of task ids generated so far
    last,       \* the last request served and its response
    signedUp,   \* history: <<user id, plaintext>> of every stored user's signup
    createdBy,  \* history: <<task id, username of the bearer that created it>>
    pending     \* signUp calls in flight, each up to its await of save(), or answered

vars == <<users, tasks, issued, now, userSeq, taskSeq, last, signedUp, createdBy, pending>>

----------------------------------------------------------------------------
\* Bounds of the model

MaxUsers == 2
MaxTasks == 1
MaxFrameTasks == 2
MaxTokens == 2
MaxTime == 3600
MaxRequests == 3

\* Inputs
Usernames == {"alice", "bobby", "al"}
Passwords == {"Passw0rd!", "S3cretKey", "weak"}
StrongPasswords == {"Passw0rd!", "S3cretKey"}
Salts == {"s1", "s2"}
StoreFaults == {"none", "conn", "nocode"}
StatusInputs == {"IN_PROGRESS", "DONE", "BOGUS"}

CreateDtos ==
    { [title |-> <<"M", "i">>, description |-> <<"x">>, status |-> {}],
      [title |-> <<"t">>, description |-> <<"m">>, status |-> {"DONE"}] }

Filters ==
    { [status |-> {}, search |-> {}],
      [status |-> {"OPEN"}, search |-> {}],
      [status |-> {}, search |-> {<<"m">>}],
      [status |-> {"DONE"}, search |-> {<<"M">>}],
      [status |-> {""}, search |-> {<< >>}] }

----------------------------------------------------------------------------
\* bcrypt

\* Variant of signUp's hashing step that leaves the password as it is.
HashNone(password, salt) == [salt |-> "", digest |-> <<password>>]

\* bcrypt.hash(password, salt): the digest embeds the salt it was made with.
Hash(password, salt) == [salt |-> salt, digest |-> <<"bcrypt", salt, password>>]

\* bcrypt.compare(password, hash): rehash with the embedded salt and compare.
Compare(password, hash) == Hash(password, hash.salt) = hash

----------------------------------------------------------------------------
\* Request validation of AuthCredentialsDto (class-validator)

\* Variant of the DTO without the length decorators on username.
ValidCredentialsPasswordOnly(username, password) ==
    /\ Len(password) >= 8 /\ Len(password) <= 20
    /\ password \in StrongPasswords

ValidCredentials(username, password) ==
    /\ Len(username) >= 4 /\ Len(username) <= 20
    /\ Len(password) >= 8 /\ Len(password) <= 20
    /\ password \in StrongPasswords

----------------------------------------------------------------------------
\* User repository

\* usersRepository.findOne({ where: { username } })
FindUser(us, username) == {u \in us : u.username = username}

\* Variant of the store without the unique index on username.
SaveErrorNoUniqueIndex(us, username, fault) ==
    IF fault = "conn" THEN {[hasCode |-> TRUE, code |-> "08006"]}
    ELSE IF fault = "nocode" THEN {[hasCode |-> FALSE, code |-> ""]}
    ELSE {}

\* usersRepository.save(user) for a new entity: the error it raises, if any.
\* A store fault pre-empts the insert; otherwise the unique index on
\* username rejects a duplicate with PostgreSQL code '23505'.
SaveError(us, username, fault) ==
    IF fault = "conn" THEN {[hasCode |-> TRUE, code |-> "08006"]}
    ELSE IF fault = "nocode" THEN {[hasCode |-> FALSE, code |-> ""]}
    ELSE IF FindUser(us, username) # {} THEN {[hasCode |-> TRUE, code |-> "23505"]}
    ELSE {}

----------------------------------------------------------------------------
\* AuthService

\* Variant of the catch block that tests for code '23503' (foreign-key violation).
SignUpExceptionWrongCode(error) ==
    IF \E e \in error : e.hasCode /\ e.code = "23503"
    THEN [status |-> "Conflict", message |-> "Username already exists"]
    ELSE [status |-> "InternalServerError", message |-> "Internal Server Error"]

\* Variant of the catch block that takes every error for a duplicate.
SignUpExceptionAnyError(error) ==
    IF error # {}
    THEN [status |-> "Conflict", message |-> "Username already exists"]
    ELSE [status |-> "InternalServerError", message |-> "Internal Server Error"]

\* Variant of the catch block that swallows the error and returns.
SignUpExceptionSwallowed(error) == [status |-> "ok", message |-> ""]

\* signUp's catch block: the exception thrown for the error save() raised.
SignUpException(error) ==
    IF \E e \in error : e.hasCode /\ e.code = "23505"
    THEN [status |-> "Conflict", message |-> "Username already exists"]
    ELSE [status |-> "InternalServerError", message |-> "Internal Server Error"]

\* Variant of signUp that returns the saved entity.
SignUpReturnUser(user) == {user}

\* Variant of signUp that returns the new user's public data.
SignUpReturnUsername(user) == {[id |-> user.id, username |-> user.username]}

\* What the signUp promise resolves to once save() went through: Promise<void>.
SignUpReturn(user) == {}

\* Variant of signIn's condition with the comparison negated.
CredentialsMatchNegated(found, password) ==
    \E u \in found : ~Compare(password, u.password)

\* signIn's condition: user && (await bcrypt.compare(password, user.password))
CredentialsMatch(found, password) ==
    \E u \in found : Compare(password, u.password)

\* Variant of signIn's payload built from the other destructured field.
SignInPayloadPassword(username, password) == [username |-> password]

\* signIn's payload: const payload: JwtPayload = { username }
SignInPayload(username, password) == [username |-> username]

\* Variant of signIn that tells an unknown username from a wrong password.
SignInExceptionLeaky(found, password) ==
    IF found = {}
    THEN [status |-> "NotFound", message |-> "User not found"]
    ELSE [status |-> "Unauthorized", message |-> "Please check your login credentials"]

\* signIn's else branch
SignInException(found, password) ==
    [status |-> "Unauthorized", message |-> "Please check your login credentials"]

----------------------------------------------------------------------------
\* JWT: JwtModule.register({ secret, signOptions: { expiresIn } }) and the
\* passport-jwt strategy configured with secretOrKey

JwtModuleSecret == "topSecret52"
SecretOrKey == "topSecret52"
ExpiresIn == 3600

\* HMAC over the claims with a key: equal only for equal key and claims.
HmacSign(key, claims) == <<key, claims>>

\* jwtService.sign(payload) at time t
JwtSign(payload, t) ==
    LET claims == [username |-> payload.username, iat |-> t, exp |-> t + ExpiresIn]
    IN  [claims |-> claims, sig |-> HmacSign(JwtModuleSecret, claims)]

\* Variant of the verification that still accepts a token at its exp second.
JwtVerifyInclusive(token, t) ==
    /\ token.sig = HmacSign(SecretOrKey, token.claims)
    /\ t <= token.claims.exp

\* passport-jwt verification at time t: signature, then expiry
\* (jsonwebtoken rejects once the clock has reached exp).
JwtVerify(token, t) ==
    /\ token.sig = HmacSign(SecretOrKey, token.claims)
    /\ t < token.claims.exp

\* JwtStrategy.validate(payload): the user row, or {} for UnauthorizedException
JwtStrategyValidate(claims, us) == FindUser(us, claims.username)

\* AuthGuard(): bearer token from the Authorization header, verification,
\* validate(); the result becomes request.user, {} is 401 Unauthorized.
AuthGuard(auth, us, t) ==
    IF auth = {} THEN {}
    ELSE LET token == CHOOSE x \in auth : TRUE
         IN  IF JwtVerify(token, t) THEN JwtStrategyValidate(token.claims, us) ELSE {}

----------------------------------------------------------------------------
\* TasksService

\* LOWER() on one character and on a text
LowerChar(c) == IF c = "M" THEN "m" ELSE IF c = "T" THEN "t" ELSE IF c = "X" THEN "x" ELSE c
Lower(text) == [i \in 1..Len(text) |-> LowerChar(text[i])]

\* text LIKE '%pattern%' ('_' in the pattern matches any one character)
Like(text, pattern) ==
    \E k \in 0..(Len(text) - Len(pattern)) :
        \A j \in 1..Len(pattern) : pattern[j] = "_" \/ pattern[j] = text[k + j]

\* getAllTasks(): this.tasksRepository.find()
getAllTasks(ts) == ts

\* Variant of the filter that tests the fields for being defined rather
\* than truthy (if (status !== undefined)): an empty value then filters.
getTaskWithFiltersDefined(ts, filter) ==
    LET hasStatus == filter.status # {}
        hasSearch == filter.search # {}
        statusOk(t) == \E s \in filter.status : t.status = s
        titleLike(t) == \E q \in filter.search : Like(Lower(t.title), Lower(q))
        descLike(t) == \E q \in filter.search : Like(Lower(t.description), Lower(q))
    IN  { t \in ts :
            IF hasStatus /\ hasSearch THEN (statusOk(t) /\ titleLike(t)) \/ descLike(t)
            ELSE IF hasStatus THEN statusOk(t)
            ELSE IF hasSearch THEN titleLike(t) \/ descLike(t)
            ELSE TRUE }

\* The query-builder filter.  Each andWhere() string is appended unwrapped,
\* so with both filters the WHERE clause reads
\*   status = :status AND LOWER(title) LIKE .. OR LOWER(description) LIKE ..
getTaskWithFilters(ts, filter) ==
    LET hasStatus == \E s \in filter.status : s # ""
        hasSearch == \E q \in filter.search : q # << >>
        statusOk(t) == \E s \in filter.status : t.status = s
        titleLike(t) == \E q \in filter.search : Like(Lower(t.title), Lower(q))
        descLike(t) == \E q \in filter.search : Like(Lower(t.description), Lower(q))
    IN  { t \in ts :
            IF hasStatus /\ hasSearch THEN (statusOk(t) /\ titleLike(t)) \/ descLike(t)
            ELSE IF hasStatus THEN statusOk(t)
            ELSE IF hasSearch THEN titleLike(t) \/ descLike(t)
            ELSE TRUE }

\* Variant of createTask with the spread last: { status: OPEN, ...dto }.
CreateTaskEntitySpreadLast(dto, id) ==
    [id |-> id, title |-> dto.title, description |-> dto.description,
     status |-> IF dto.status = {} THEN "OPEN" ELSE CHOOSE x \in dto.status : TRUE,
     user |-> {}]

\* createTask(dto): create({ ...dto, status: TaskStatus.OPEN }); the row gets a
\* generated id and no user (the relation is never assigned).
CreateTaskEntity(dto, id) ==
    [id |-> id, title |-> dto.title, description |-> dto.description,
     status |-> "OPEN", user |-> {}]

\* Variant of getTaskById whose where clause is lost ({ id: undefined }):
\* findOne then returns the first row of the table.
getTaskByIdFirstRow(ts, id) ==
    IF ts = {} THEN {} ELSE {CHOOSE t \in ts : \A o \in ts : t.id <= o.id}

\* getTaskById(id): findOne({ where: { id } }); {} is NotFoundException
getTaskById(ts, id) == {t \in ts : t.id = id}

\* Variant of deleteTask whose criteria are lost: every row goes.
deleteTaskClear(ts, id) == {}

\* deleteTask(id): the rows left after tasksRepository.delete(id)
deleteTask(ts, id) == {t \in ts : t.id # id}

\* Variant of deleteTask that never throws (the in-memory filter).
deleteTaskSilent(affected) == FALSE

\* deleteTask(id): if (result.affected === 0) throw new NotFoundException
deleteTaskThrows(affected) == affected = 0

\* updateTaskStatus(id, status): the task found by id with its status overwritten
updateTaskStatus(ts, id, status) ==
    {[t EXCEPT !.status = status] : t \in getTaskById(ts, id)}

----------------------------------------------------------------------------
\* Requests

\* The bearer tokens a client may put in the Authorization header: none, one
\* handed out by signIn, or one of those with its username claim altered
\* (the signature is the original's).
Tampered(token) ==
    [token EXCEPT !.claims.username = IF @ = "alice" THEN "bobby" ELSE "alice"]
Tokens == {g.token : g \in issued}
AuthHeaders ==
    {{}} \cup {{tok} : tok \in Tokens} \cup {{Tampered(tok)} : tok \in Tokens}

\* The user a header speaks for: the one signIn handed its token to
\* ("" when it carries no such token).
Bearer(auth) ==
    IF \E g \in issued : auth = {g.token}
    THEN (CHOOSE g \in issued : auth = {g.token}).holder ELSE ""

Response(op, auth, arg, status, message, body) ==
    [op |-> op, auth |-> auth, at |-> now, arg |-> arg,
     status |-> status, message |-> message, body |-> body]

\* The HTTP status line of a response: Nest answers a @Post() handler that
\* returns with 201 Created and any other with 200 OK; an exception carries
\* its own status.
HttpCode(op, status) ==
    IF status = "ok"
    THEN (IF op \in {"signUp", "signIn", "createTask"} THEN 201 ELSE 200)
    ELSE IF status = "BadRequest" THEN 400
    ELSE IF status = "Unauthorized" THEN 401
    ELSE IF status = "NotFound" THEN 404
    ELSE IF status = "Conflict" THEN 409
    ELSE 500

\* The signUp calls that may be in flight at once, and a call not yet made
Requests == 1..MaxRequests
NoCall ==
    [pc |-> "idle", username |-> "", password |-> "", hashedPassword |-> {},
     fault |-> "", overlapped |-> {}, status |-> "", message |-> "", body |-> {}]

Init ==
    /\ users = {}
    /\ tasks = {}
    /\ issued = {}
    /\ now = 0
    /\ userSeq = 0
    /\ taskSeq = 0
    /\ last = Response("none", {}, [none |-> TRUE], "ok", "", {})
    /\ signedUp = {}
    /\ createdBy = {}
    /\ pending = [r \in Requests |-> NoCall]

----------------------------------------------------------------------------
\* POST /auth/signup: validation pipe, then AuthService.signUp
SignUp(username, password, salt, fault) ==
    LET arg == [username |-> username, password |-> password, fault |-> fault]
        hashedPassword == Hash(password, salt)
        user == [id |-> userSeq + 1, username |-> username, password |-> hashedPassword]
        error == SaveError(users, username, fault)
        thrown == SignUpException(error)
    IN  IF ~ValidCredentials(username, password)
        THEN /\ last' = Response("signUp", {}, arg, "BadRequest", "Bad Request", {})
             /\ UNCHANGED <<users, tasks, issued, now, userSeq, taskSeq, signedUp, createdBy, pending>>
        ELSE IF error # {}
        THEN /\ last' = Response("signUp", {}, arg, thrown.status, thrown.message, {})
             /\ UNCHANGED <<users, tasks, issued, now, userSeq, taskSeq, signedUp, createdBy, pending>>
        ELSE /\ userSeq < MaxUsers
             /\ users' = users \cup {user}
             /\ userSeq' = userSeq + 1
             /\ signedUp' = signedUp \cup {<<user.id, password>>}
             /\ last' = Response("signUp", {}, arg, "ok", "", SignUpReturn(user))
             /\ UNCHANGED <<tasks, issued, now, taskSeq, createdBy, pending>>

\* Call r of AuthService.signUp runs to its await of save(): the password is
\* hashed and the entity created; the store has not been asked anything.
SignUpBegin(r, username, password, salt) ==
    /\ pending[r].pc = "idle"
    /\ ValidCredentials(username, password)
    /\ pending' = [pending EXCEPT ![r] =
           [NoCall EXCEPT !.pc = "save", !.username = username, !.password = password,
                          !.hashedPassword = {Hash(password, salt)}]]
    /\ UNCHANGED <<users, tasks, issued, now, userSeq, taskSeq, last, signedUp, createdBy>>

\* The store executes the INSERT of call r, with its unique index, and the
\* call runs to its end: it resolves, or its catch block throws.
SignUpSave(r, fault) ==
    LET call == pending[r]
        user == [id |-> userSeq + 1, username |-> call.username,
                 password |-> CHOOSE h \in call.hashedPassword : TRUE]
        error == SaveError(users, call.username, fault)
        thrown == SignUpException(error)
        inFlight == {q \in Requests \ {r} : pending[q].pc = "save"}
    IN  /\ call.pc = "save"
        /\ IF error # {}
           THEN /\ pending' = [pending EXCEPT ![r] =
                       [call EXCEPT !.pc = "done", !.fault = fault, !.overlapped = inFlight,
                                    !.status = thrown.status, !.message = thrown.message]]
                /\ UNCHANGED <<users, userSeq, signedUp>>
           ELSE /\ userSeq < MaxUsers
                /\ users' = users \cup {user}
                /\ userSeq' = userSeq + 1
                /\ signedUp' = signedUp \cup {<<user.id, call.password>>}
                /\ pending' = [pending EXCEPT ![r] =
                       [call EXCEPT !.pc = "done", !.fault = fault, !.overlapped = inFlight,
                                    !.status = "ok", !.body = SignUpReturn(user)]]
        /\ UNCHANGED <<tasks, issued, now, taskSeq, last, createdBy>>

\* POST /auth/signin: validation pipe, then AuthService.signIn
SignIn(username, password) ==
    LET arg == [username |-> username, password |-> password]
        found == FindUser(users, username)
        accessToken == JwtSign(SignInPayload(username, password), now)
        grant == [holder |-> username, token |-> accessToken]
        thrown == SignInException(found, password)
    IN  IF ~ValidCredentials(username, password)
        THEN /\ last' = Response("signIn", {}, arg, "BadRequest", "Bad Request", {})
             /\ UNCHANGED <<users, tasks, issued, now, userSeq, taskSeq, signedUp, createdBy, pending>>
        ELSE IF CredentialsMatch(found, password)
        THEN /\ grant \in issued \/ Cardinality(issued) < MaxTokens
             /\ issued' = issued \cup {grant}
             /\ last' = Response("signIn", {}, arg, "ok", "", {[accessToken |-> accessToken]})
             /\ UNCHANGED <<users, tasks, now, userSeq, taskSeq, signedUp, createdBy, pending>>
        ELSE /\ last' = Response("signIn", {}, arg, thrown.status, thrown.message, {})
             /\ UNCHANGED <<users, tasks, issued, now, userSeq, taskSeq, signedUp, createdBy, pending>>

\* A request passing through AuthGuard() on a route decorated with it
Authenticate(auth) ==
    LET user == AuthGuard(auth, users, now)
    IN  /\ last' = IF user = {}
                   THEN Response("guard", auth, [none |-> TRUE], "Unauthorized", "Unauthorized", {})
                   ELSE Response("guard", auth, [none |-> TRUE], "ok", "", user)
        /\ UNCHANGED <<users, tasks, issued, now, userSeq, taskSeq, signedUp, createdBy, pending>>

\* GET /tasks: TasksController.getTasks
GetTasks(auth, filter) ==
    LET found == IF filter.status # {} \/ filter.search # {}
                 THEN getTaskWithFilters(tasks, filter)
                 ELSE getAllTasks(tasks)
    IN  /\ last' = Response("getTasks", auth, [filter |-> filter], "ok", "", found)
        /\ UNCHANGED <<users, tasks, issued, now, userSeq, taskSeq, signedUp, createdBy, pending>>

\* POST /tasks: TasksController.createTask
CreateTask(auth, dto) ==
    LET task == CreateTaskEntity(dto, taskSeq + 1)
    IN  /\ tasks' = tasks \cup {task}
        /\ taskSeq' = taskSeq + 1
        /\ createdBy' = createdBy \cup {<<task.id, Bearer(auth)>>}
        /\ last' = Response("createTask", auth, [dto |-> dto], "ok", "", {task})
        /\ UNCHANGED <<users, issued, now, userSeq, signedUp, pending>>

\* GET /tasks/:id: TasksController.getById
GetById(auth, id) ==
    LET found == getTaskById(tasks, id)
    IN  /\ last' = IF found = {}
                   THEN Response("getById", auth, [id |-> id], "NotFound", "Not Found", {})
                   ELSE Response("getById", auth, [id |-> id], "ok", "", found)
        /\ UNCHANGED <<users, tasks, issued, now, userSeq, taskSeq, signedUp, createdBy, pending>>

\* DELETE /tasks/:id: TasksController.removeTask
RemoveTask(auth, id) ==
    LET affected == Cardinality(tasks \ deleteTask(tasks, id))
    IN  /\ tasks' = deleteTask(tasks, id)
        /\ last' = IF deleteTaskThrows(affected)
                   THEN Response("removeTask", auth, [id |-> id], "NotFound", "Not Found", {})
                   ELSE Response("removeTask", auth, [id |-> id], "ok", "", {})
        /\ UNCHANGED <<users, issued, now, userSeq, taskSeq, signedUp, createdBy, pending>>

\* PATCH /tasks/:id/status: TasksController.updateTaskStatus
UpdateTaskStatus(auth, id, status) ==
    LET arg == [id |-> id, status |-> status]
        updated == updateTaskStatus(tasks, id, status)
    IN  /\ tasks' = deleteTask(tasks, id) \cup updated
        /\ last' = IF updated = {}
                   THEN Response("updateTaskStatus", auth, arg, "NotFound", "Not Found", {})
                   ELSE Response("updateTaskStatus", auth, arg, "ok", "", updated)
        /\ UNCHANGED <<users, issued, now, userSeq, taskSeq, signedUp, createdBy, pending>>

\* An administrator removes a user row (outside the API)
AdminRemoveUser(user) ==
    /\ users' = users \ {user}
    /\ signedUp' = {s \in signedUp : s[1] # user.id}
    /\ UNCHANGED <<tasks, issued, now, userSeq, taskSeq, last, createdBy, pending>>

\* Time passes: one validity window
Tick ==
    /\ now + ExpiresIn <= MaxTime
    /\ now' = now + ExpiresIn
    /\ UNCHANGED <<users, tasks, issued, userSeq, taskSeq, last, signedUp, createdBy, pending>>

\* Time passes to an instant next to the start or the end of a validity window
ClockPoints == {1, ExpiresIn - 1, ExpiresIn, ExpiresIn + 1, ExpiresIn + 2}
Advance(t) ==
    /\ t > now
    /\ now' = t
    /\ UNCHANGED <<users, tasks, issued, userSeq, taskSeq, last, signedUp, createdBy, pending>>

TaskIds == 1..MaxTasks

\* The authentication side: every signup and signin input, store faults,
\* removed accounts, the guard.
NextAuth ==
    \/ \E u \in Usernames, p \in Passwords, s \in Salts, f \in StoreFaults : SignUp(u, p, s, f)
    \/ \E u \in Usernames, p \in Passwords : SignIn(u, p)
    \/ \E a \in AuthHeaders : Authenticate(a)
    \/ \E u \in users : AdminRemoveUser(u)
    \/ Tick

SpecAuth == Init /\ [][NextAuth]_vars

\* The five routes of TasksController, with every header and input
TaskRequests ==
    \/ \E a \in AuthHeaders, f \in Filters : GetTasks(a, f)
    \/ taskSeq < MaxTasks /\ \E a \in AuthHeaders, d \in CreateDtos : CreateTask(a, d)
    \/ \E a \in AuthHeaders, i \in TaskIds : GetById(a, i)
    \/ \E a \in AuthHeaders, i \in TaskIds : RemoveTask(a, i)
    \/ \E a \in AuthHeaders, i \in TaskIds, s \in StatusInputs : UpdateTaskStatus(a, i, s)

\* The task side: two users who sign up and sign in with fixed credentials,
\* and every task request, within one validity window.
TaskUsers == {"alice", "bobby"}
NextTasks ==
    \/ \E u \in TaskUsers : SignUp(u, "Passw0rd!", "s1", "none")
    \/ \E u \in TaskUsers : SignIn(u, "Passw0rd!")
    \/ TaskRequests

SpecTasks == Init /\ [][NextTasks]_vars

\* The task side over time: one user, every task request, tokens that expire.
NextExpiry ==
    \/ SignUp("alice", "Passw0rd!", "s1", "none")
    \/ SignIn("alice", "Passw0rd!")
    \/ TaskRequests
    \/ Tick

SpecExpiry == Init /\ [][NextExpiry]_vars

\* The task side with accounts that go away: one user who signs up and signs
\* in and whose row may be removed, the guard, and every task request.
NextStale ==
    \/ SignUp("alice", "Passw0rd!", "s1", "none")
    \/ SignIn("alice", "Passw0rd!")
    \/ \E u \in users : AdminRemoveUser(u)
    \/ \E a \in AuthHeaders : Authenticate(a)
    \/ TaskRequests

SpecStale == Init /\ [][NextStale]_vars

\* Tokens over their validity window: two users who sign up and sign in at
\* any of the instants, accounts that go away, and the guard.
NextWindow ==
    \/ \E u \in TaskUsers : SignUp(u, "Passw0rd!", "s1", "none")
    \/ \E u \in TaskUsers : SignIn(u, "Passw0rd!")
    \/ \E u \in users : AdminRemoveUser(u)
    \/ \E a \in AuthHeaders : Authenticate(a)
    \/ \E t \in ClockPoints : Advance(t)

SpecWindow == Init /\ [][NextWindow]_vars

\* The task side with several tasks in the store: one user and the five
\* routes, over ids that are stored, deleted or not yet generated.
FrameTaskIds == 1..MaxFrameTasks
FrameHeaders == {{}} \cup {{tok} : tok \in Tokens}
FrameFilters == {f \in Filters : f.status = {} \/ f.search = {}}
NextFrame ==
    \/ SignUp("alice", "Passw0rd!", "s1", "none")
    \/ SignIn("alice", "Passw0rd!")
    \/ \E a \in FrameHeaders, f \in FrameFilters : GetTasks(a, f)
    \/ taskSeq < MaxFrameTasks /\ \E a \in FrameHeaders, d \in CreateDtos : CreateTask(a, d)
    \/ \E a \in FrameHeaders, i \in FrameTaskIds : GetById(a, i)
    \/ \E a \in FrameHeaders, i \in FrameTaskIds : RemoveTask(a, i)
    \/ \E a \in FrameHeaders, i \in FrameTaskIds, st \in StatusInputs : UpdateTaskStatus(a, i, st)

SpecFrame == Init /\ [][NextFrame]_vars

\* Concurrent signups: calls of signUp interleaved at their await of save()
NextConcurrent ==
    \/ \E r \in Requests, u \in TaskUsers, p \in StrongPasswords : SignUpBegin(r, u, p, "s1")
    \/ \E r \in Requests, f \in {"none", "conn"} : SignUpSave(r, f)

SpecConcurrent == Init /\ [][NextConcurrent]_vars

\* User records over their life: two usernames that sign up and sign in with
\* either password, and the five task routes.
NextUsers ==
    \/ \E u \in TaskUsers, p \in StrongPasswords : SignUp(u, p, "s1", "none")
    \/ \E u \in TaskUsers, p \in StrongPasswords : SignIn(u, p)
    \/ \E a \in FrameHeaders : GetTasks(a, [status |-> {}, search |-> {}])
    \/ taskSeq < MaxTasks /\ \E a \in FrameHeaders, d \in CreateDtos : CreateTask(a, d)
    \/ \E a \in FrameHeaders, i \in TaskIds : GetById(a, i)
    \/ \E a \in FrameHeaders, i \in TaskIds : RemoveTask(a, i)
    \/ \E a \in FrameHeaders, i \in TaskIds : UpdateTaskStatus(a, i, "DONE")

SpecUsers == Init /\ [][NextUsers]_vars

\* Signups and signins with usernames of 3, 4, 20 and 21 characters
BoundaryUsernames == {"bob", "anna", "abcdefghijklmnopqrst", "abcdefghijklmnopqrstu"}
NextValidation ==
    \/ \E u \in BoundaryUsernames, p \in Passwords, s \in Salts : SignUp(u, p, s, "none")
    \/ \E u \in BoundaryUsernames, p \in Passwords : SignIn(u, p)

SpecValidation == Init /\ [][NextValidation]_vars

\* Lists with every way of giving no filter: no query key, or keys whose
\* values are empty; two users who create and delete tasks.
ListFilters ==
    {[status |-> st, search |-> se] : st \in {{}, {""}}, se \in {{}, {<< >>}}}
        \cup {[status |-> {"OPEN"}, search |-> {<<"m">>}]}
NextList ==
    \/ \E u \in TaskUsers : SignUp(u, "Passw0rd!", "s1", "none")
    \/ \E u \in TaskUsers : SignIn(u, "Passw0rd!")
    \/ \E a \in FrameHeaders, f \in ListFilters : GetTasks(a, f)
    \/ taskSeq < MaxFrameTasks /\ \E a \in FrameHeaders, d \in CreateDtos : CreateTask(a, d)
    \/ \E a \in FrameHeaders, i \in FrameTaskIds : RemoveTask(a, i)

SpecList == Init /\ [][NextList]_vars

----------------------------------------------------------------------------
\* Steps, told by the request recorded in last'

SignUpStep ==
    /\ last'.op = "signUp"
    /\ \E s \in Salts : SignUp(last'.arg.username, last'.arg.password, s, last'.arg.fault)
SignInStep ==
    /\ last'.op = "signIn"
    /\ SignIn(last'.arg.username, last'.arg.password)
AuthenticateStep ==
    /\ last'.op = "guard"
    /\ Authenticate(last'.auth)
GetTasksStep ==
    /\ last'.op = "getTasks"
    /\ GetTasks(last'.auth, last'.arg.filter)
CreateTaskStep ==
    /\ last'.op = "createTask"
    /\ CreateTask(last'.auth, last'.arg.dto)
GetByIdStep ==
    /\ last'.op = "getById"
    /\ GetById(last'.auth, last'.arg.id)
RemoveTaskStep ==
    /\ last'.op = "removeTask"
    /\ RemoveTask(last'.auth, last'.arg.id)
UpdateTaskStatusStep ==
    /\ last'.op = "updateTaskStatus"
    /\ UpdateTaskStatus(last'.auth, last'.arg.id, last'.arg.status)

\* A step of one of the five task handlers
TaskStep ==
    GetTasksStep \/ CreateTaskStep \/ GetByIdStep \/ RemoveTaskStep \/ UpdateTaskStatusStep

----------------------------------------------------------------------------
\* Properties of the task side (SpecTasks)

\* The users that created task id (as bearers of the Create request)
Creators(id) == {c[2] : c \in {x \in createdBy : x[1] = id}} \ {""}

\* C1: a List by user B, with any filter, returns no task created by a
\* user A # B.
C1_ListNeverShowsForeignTask ==
    (last.op = "getTasks" /\ Bearer(last.auth) # "")
        => \A t \in last.body : Creators(t.id) \subseteq {Bearer(last.auth)}

\* C2: GetById, UpdateStatus and Delete by user B on a stored task created by
\* a user A # B fail with NotFound and leave the task store unchanged.
C2_ForeignTaskIsNotFound ==
    [][( /\ GetByIdStep \/ RemoveTaskStep \/ UpdateTaskStatusStep
         /\ Bearer(last'.auth) # ""
         /\ getTaskById(tasks, last'.arg.id) # {}
         /\ Creators(last'.arg.id) \ {Bearer(last'.auth)} # {} )
       => (last'.status = "NotFound" /\ tasks' = tasks)]_vars

\* The header carries a token that is expired or whose signature does not verify
BadToken(a) == a # {} /\ \A tok \in a : ~JwtVerify(tok, now)

\* C3: a task request with an expired or tampered token is rejected with
\* Unauthenticated and leaves the task store unchanged (SpecExpiry).
C3_BadTokenRejected ==
    [][(TaskStep /\ BadToken(last'.auth))
       => (last'.status = "Unauthorized" /\ tasks' = tasks)]_vars

\* C4: a task request with no bearer token fails with Unauthenticated,
\* returns no task data and leaves the task store unchanged.
C4_NoTokenRejected ==
    [][(TaskStep /\ last'.auth = {})
       => (last'.status = "Unauthorized" /\ last'.body = {} /\ tasks' = tasks)]_vars

\* The header carries a token signIn handed out, not yet expired, whose user
\* row is gone
StaleToken(a) ==
    \E g \in issued :
        a = {g.token} /\ now < g.token.claims.exp /\ FindUser(users, g.holder) = {}

\* C13: once the user row is removed, every task request presenting the
\* token that user obtained, still unexpired, fails with Unauthenticated and
\* has no effect (SpecStale).
C13_StaleTokenRejected ==
    [][(TaskStep /\ StaleToken(last'.auth))
       => (last'.status = "Unauthorized" /\ last'.body = {} /\ tasks' = tasks)]_vars

\* The guard on its own turns a stale token away (JwtStrategy.validate).
GuardRejectsStaleToken ==
    [][(AuthenticateStep /\ StaleToken(last'.auth))
       => last'.status = "Unauthorized"]_vars

\* C20: in every task request the token check has succeeded before the
\* handler runs: a request whose token does not pass the check gets
\* Unauthenticated, no result and no effect; signUp and signIn are not
\* subject to the check and succeed without a token.
C20_CheckPrecedesHandler ==
    [][ /\ (TaskStep /\ AuthGuard(last'.auth, users, now) = {})
           => (last'.status = "Unauthorized" /\ last'.body = {} /\ tasks' = tasks)
        /\ ( /\ SignUpStep /\ last'.arg.fault = "none"
             /\ ValidCredentials(last'.arg.username, last'.arg.password)
             /\ FindUser(users, last'.arg.username) = {} )
           => (last'.auth = {} /\ last'.status = "ok")
        /\ ( /\ SignInStep
             /\ ValidCredentials(last'.arg.username, last'.arg.password)
             /\ CredentialsMatch(FindUser(users, last'.arg.username), last'.arg.password) )
           => (last'.auth = {} /\ last'.status = "ok")
      ]_vars

\* The guarded routes aside, signUp and signIn are served without a token.
AuthRoutesNeedNoToken ==
    [][ /\ ( /\ SignUpStep /\ last'.arg.fault = "none"
             /\ ValidCredentials(last'.arg.username, last'.arg.password)
             /\ FindUser(users, last'.arg.username) = {} )
           => (last'.auth = {} /\ last'.status = "ok")
        /\ ( /\ SignInStep
             /\ ValidCredentials(last'.arg.username, last'.arg.password)
             /\ CredentialsMatch(FindUser(users, last'.arg.username), last'.arg.password) )
           => (last'.auth = {} /\ last'.status = "ok")
      ]_vars

\* C21: every stored task has an owner, and the owner is the user who was
\* authenticated in the Create request that made the task.
C21_EveryTaskHasOwner ==
    \A t \in tasks :
        /\ t.user # {}
        /\ \A u \in t.user : Creators(t.id) = {u.username}

\* The values of the TaskStatus enumeration
TaskStatuses == {"OPEN", "IN_PROGRESS", "DONE"}

\* C22: the status of every stored task is one of OPEN, IN_PROGRESS, DONE,
\* whatever value an UpdateStatus request carried.
C22_StoredStatusIsEnumerated ==
    \A t \in tasks : t.status \in TaskStatuses

\* C9: every task returned by Create has status OPEN, whatever the input
\* carries in its status field.
C9_CreatedTaskIsOpen ==
    last.op = "createTask"
        => (last.status = "ok" /\ last.body # {} /\ \A t \in last.body : t.status = "OPEN")

C9_Witness ==
    /\ last.op = "createTask"
    /\ last.arg.dto.status = {"DONE"}
    /\ \E t \in last.body : t.status = "OPEN" /\ t \in tasks

\* The values of a filter field that are given (an empty one counts as absent)
GivenStatus(filter) == {s \in filter.status : s # ""}
GivenSearch(filter) == {q \in filter.search : q # << >>}

\* q occurs in text as a substring, letter case ignored
OccursIn(q, text) ==
    \E k \in 0..(Len(text) - Len(q)) :
        \A j \in 1..Len(q) : LowerChar(q[j]) = LowerChar(text[k + j])

\* C12: a List with a filter returns exactly the caller's tasks t such that
\* (status is absent or t.status = status) and (search is absent or search
\* occurs, case ignored, in t.title or t.description); with both given, no
\* returned task has another status (SpecExpiry: every task is the caller's).
C12_FilterIsConjunction ==
    (last.op = "getTasks" /\ Bearer(last.auth) # "")
        => last.body =
             { t \in tasks :
                 /\ Creators(t.id) \subseteq {Bearer(last.auth)}
                 /\ \A s \in GivenStatus(last.arg.filter) : t.status = s
                 /\ \A q \in GivenSearch(last.arg.filter) :
                       OccursIn(q, t.title) \/ OccursIn(q, t.description) }

----------------------------------------------------------------------------
\* Properties of the task store (SpecFrame)

\* The request in last' comes from the user that created the stored task it names
ByOwner ==
    /\ Bearer(last'.auth) # ""
    /\ \E t \in tasks : t.id = last'.arg.id
    /\ Creators(last'.arg.id) = {Bearer(last'.auth)}

\* Ids that were generated and whose task is no longer stored
Deleted == {i \in 1..taskSeq : \A t \in tasks : t.id # i}

\* C15: Delete(id) by the owner of a stored task succeeds and removes that
\* task and no other; from then on GetById(id) fails with NotFound and no
\* List returns the task.
C15_DeleteRemovesExactlyThatTask ==
    [][ /\ (RemoveTaskStep /\ ByOwner)
           => ( /\ last'.status = "ok"
                /\ \A t \in tasks : t \in tasks' <=> t.id # last'.arg.id
                /\ tasks' \subseteq tasks
                /\ last'.arg.id \in Deleted' )
        /\ Deleted \subseteq Deleted'
        /\ (GetByIdStep /\ last'.arg.id \in Deleted) => last'.status = "NotFound"
        /\ GetTasksStep => \A t \in last'.body : t.id \notin Deleted
      ]_vars

\* The owner deleted one of two stored tasks; the other is still there
C15_Witness ==
    /\ last.op = "removeTask"
    /\ last.status = "ok"
    /\ Bearer(last.auth) # ""
    /\ Creators(last.arg.id) = {Bearer(last.auth)}
    /\ last.arg.id \in Deleted
    /\ tasks # {}

C26_NoFilterPathsAgree ==
    ( /\ last.op = "getTasks"
      /\ GivenStatus(last.arg.filter) = {}
      /\ GivenSearch(last.arg.filter) = {} )
        => /\ \A t \in tasks : Creators(t.id) = {Bearer(last.auth)} => t \in last.body
           /\ last.body = getAllTasks(tasks)

\* A List on the filtered path (keys present, values empty) that returned the
\* caller's two stored tasks
C26_Witness ==
    /\ last.op = "getTasks"
    /\ last.arg.filter = [status |-> {""}, search |-> {<< >>}]
    /\ Bearer(last.auth) # ""
    /\ Cardinality(last.body) = 2
    /\ \A t \in last.body : t \in tasks /\ Creators(t.id) = {Bearer(last.auth)}

----------------------------------------------------------------------------
\* Properties of the authentication side (SpecAuth)

\* The stored user called username signed up with this password
SignedUpWith(username, password) ==
    \E u \in FindUser(users, username) : <<u.id, password>> \in signedUp

\* C5: signUp with valid credentials and a username not yet stored succeeds
\* (the store being available), and signIn with the credentials a stored user
\* signed up with succeeds and returns an access token.
C5_SignUpThenSignIn ==
    [][ /\ ( /\ SignUpStep
             /\ last'.arg.fault = "none"
             /\ ValidCredentials(last'.arg.username, last'.arg.password)
             /\ FindUser(users, last'.arg.username) = {} )
           => ( /\ last'.status = "ok"
                /\ \E usr \in users' \ users :
                      /\ usr.username = last'.arg.username
                      /\ <<usr.id, last'.arg.password>> \in signedUp' )
        /\ (SignInStep /\ SignedUpWith(last'.arg.username, last'.arg.password))
           => ( /\ last'.status = "ok"
                /\ \E b \in last'.body :
                      [holder |-> last'.arg.username, token |-> b.accessToken] \in issued' )
      ]_vars

C5_Witness ==
    /\ last.op = "signIn"
    /\ last.status = "ok"
    /\ SignedUpWith(last.arg.username, last.arg.password)
    /\ \E b \in last.body : [holder |-> last.arg.username, token |-> b.accessToken] \in issued

\* C6: signUp with a username that is already stored fails with
\* ConflictException 'Username already exists' for every password, the
\* stored user's own included, and stores nothing.
C6_DuplicateUsernameConflict ==
    [][( /\ SignUpStep
         /\ last'.arg.fault = "none"
         /\ ValidCredentials(last'.arg.username, last'.arg.password)
         /\ FindUser(users, last'.arg.username) # {} )
       => ( /\ last'.status = "Conflict"
            /\ last'.message = "Username already exists"
            /\ users' = users )]_vars

C6_Witness ==
    /\ last.op = "signUp"
    /\ last.status = "Conflict"
    /\ SignedUpWith(last.arg.username, last.arg.password)

\* C7: signIn with a stored username and a wrong password and signIn with an
\* unknown username end in the same response: UnauthorizedException with the
\* same message and no body.
C7_SignInFailuresIdentical ==
    [][( /\ SignInStep
         /\ ValidCredentials(last'.arg.username, last'.arg.password)
         /\ ~SignedUpWith(last'.arg.username, last'.arg.password) )
       => ( /\ last'.status = "Unauthorized"
            /\ last'.message = "Please check your login credentials"
            /\ last'.body = {}
            /\ issued' = issued )]_vars

\* The unknown-username response, in a state whose store holds a user for
\* whom a wrong password draws the same exception.
C7_Witness ==
    /\ last.op = "signIn"
    /\ last.status = "Unauthorized"
    /\ FindUser(users, last.arg.username) = {}
    /\ \E usr \in users, p \in StrongPasswords :
          /\ ~SignedUpWith(usr.username, p)
          /\ SignInException({usr}, p) = [status |-> last.status, message |-> last.message]

C14_AcceptedThroughExpiry ==
    [][\A g \in issued :
         ( /\ AuthenticateStep
           /\ last'.auth = {g.token}
           /\ FindUser(users, g.holder) # {} )
         => ( /\ now <= g.token.claims.iat + ExpiresIn => last'.status = "ok"
              /\ now > g.token.claims.iat + ExpiresIn => last'.status = "Unauthorized" )]_vars

\* C14 amended: validation accepts a token issued at t at every time before
\* t + 3600 while its user exists, whatever was signed in since, and rejects
\* it at t + 3600 and at every time after.
C14_AcceptedBeforeExpiry ==
    [][\A g \in issued :
         ( /\ AuthenticateStep
           /\ last'.auth = {g.token}
           /\ FindUser(users, g.holder) # {} )
         => ( /\ now < g.token.claims.iat + ExpiresIn => last'.status = "ok"
              /\ now >= g.token.claims.iat + ExpiresIn => last'.status = "Unauthorized" )]_vars

\* A token accepted in the last second of its window, after a later signIn
C14_Witness ==
    /\ last.op = "guard"
    /\ last.status = "ok"
    /\ \E g, h \in issued :
          /\ last.auth = {g.token}
          /\ last.at = g.token.claims.iat + ExpiresIn - 1
          /\ h.token.claims.iat > g.token.claims.iat

\* A token turned away at the second it expires, its user still stored
RejectedAtExpiry ==
    /\ last.op = "guard"
    /\ last.status = "Unauthorized"
    /\ \E g \in issued :
          /\ last.auth = {g.token}
          /\ last.at = g.token.claims.exp
          /\ FindUser(users, g.holder) # {}

\* The signUp calls for username that the store answered (no store fault)
Answered(username) ==
    {r \in Requests : /\ pending[r].pc = "done"
                      /\ pending[r].username = username
                      /\ pending[r].fault = "none"}

\* C18: however concurrent signUp calls interleave, no two stored users have
\* the same username, and of the calls for one username that the store
\* answered exactly one succeeded and every other failed with
\* ConflictException (SpecConcurrent).
C18_UniqueUsernameUnderConcurrency ==
    /\ \A u1, u2 \in users : u1.username = u2.username => u1 = u2
    /\ \A n \in Usernames :
          Answered(n) # {}
            => /\ Cardinality({r \in Answered(n) : pending[r].status = "ok"}) = 1
               /\ \A r \in Answered(n) :
                     pending[r].status # "ok"
                       => /\ pending[r].status = "Conflict"
                          /\ pending[r].message = "Username already exists"

\* Three calls for one username, all in flight when the first was saved: one
\* succeeded, two got the conflict
C18_Witness ==
    \E r \in Requests :
        /\ pending[r].pc = "done" /\ pending[r].status = "ok"
        /\ Cardinality(pending[r].overlapped) >= 2
        /\ \A q \in pending[r].overlapped :
              /\ pending[q].username = pending[r].username
              /\ pending[q].status = "Conflict"
        /\ Cardinality(FindUser(users, pending[r].username)) = 1

\* C19: when save() fails with an error whose code is not '23505', or with
\* an error that has no code, signUp throws InternalServerErrorException,
\* never the conflict and never success, and stores nothing.
C19_OtherSaveFailureIsInternalError ==
    [][( /\ SignUpStep
         /\ ValidCredentials(last'.arg.username, last'.arg.password)
         /\ \E e \in SaveError(users, last'.arg.username, last'.arg.fault) :
               ~e.hasCode \/ e.code # "23505" )
       => ( /\ last'.status = "InternalServerError"
            /\ HttpCode(last'.op, last'.status) = 500
            /\ last'.body = {}
            /\ users' = users )]_vars

\* An error without a code, for a username that is already stored
C19_Witness ==
    /\ last.op = "signUp"
    /\ last.arg.fault = "nocode"
    /\ last.status = "InternalServerError"
    /\ FindUser(users, last.arg.username) # {}

\* C23: no signUp, signIn or task request changes or removes a stored user
\* record; a signUp with a stored username stores nothing, whatever its
\* password, so signIn keeps succeeding with the password of the first
\* signup and with no other (SpecUsers).
C23_UserRecordNeverChanges ==
    [][ /\ (SignUpStep \/ SignInStep \/ TaskStep) => users \subseteq users'
        /\ (SignUpStep /\ FindUser(users, last'.arg.username) # {}) => users' = users
        /\ (SignInStep /\ FindUser(users, last'.arg.username) # {})
           => (last'.status = "ok" <=> SignedUpWith(last'.arg.username, last'.arg.password))
      ]_vars

\* A signUp with a stored username and another password was turned away,
\* and the stored hash is still that of the first password
C23_Witness ==
    /\ last.op = "signUp"
    /\ last.status = "Conflict"
    /\ \E usr \in FindUser(users, last.arg.username) :
          /\ ~Compare(last.arg.password, usr.password)
          /\ \E p \in StrongPasswords :
                <<usr.id, p>> \in signedUp /\ Compare(p, usr.password)

\* C24: the password field of every stored user is the bcrypt digest of the
\* password it signed up with under one of the salts, and the bare password
\* is not what is stored.
C24_StoredPasswordIsSaltedHash ==
    \A usr \in users :
        \E p \in Passwords, s \in Salts :
            /\ <<usr.id, p>> \in signedUp
            /\ usr.password.salt = s
            /\ usr.password.digest = <<"bcrypt", s, p>>
            /\ usr.password.digest # <<p>>

\* Two users signed up with the same password; their stored values differ
C24_Witness ==
    \E u1, u2 \in users :
        /\ u1.id # u2.id
        /\ \E p \in Passwords : <<u1.id, p>> \in signedUp /\ <<u2.id, p>> \in signedUp
        /\ u1.password # u2.password

\* C25: every stored user's username has between 4 and 20 characters: a
\* signUp with a shorter or longer username is answered 400 Bad Request and
\* stores nothing (SpecValidation).
C25_StoredUsernameLength ==
    [][ /\ \A usr \in users' : Len(usr.username) >= 4 /\ Len(usr.username) <= 20
        /\ (SignUpStep /\ (Len(last'.arg.username) < 4 \/ Len(last'.arg.username) > 20))
           => ( /\ last'.status = "BadRequest"
                /\ users' = users
                /\ userSeq' = userSeq )
      ]_vars

\* Users of 4 and of 20 characters are stored and a signUp with 21 was refused
C25_Witness ==
    /\ last.op = "signUp"
    /\ last.status = "BadRequest"
    /\ Len(last.arg.username) = 21
    /\ last.arg.password \in StrongPasswords
    /\ \E u1, u2 \in users : Len(u1.username) = 4 /\ Len(u2.username) = 20

\* C27: a signUp whose save() raised an error, the duplicate or any other,
\* is answered with that failure and never as a success, and leaves the user
\* table as it was: no row is added and none is changed.
C27_FailedSignUpStoresNothing ==
    [][ /\ (SignUpStep /\ last'.status \in {"Conflict", "InternalServerError"})
           => (users' = users /\ userSeq' = userSeq /\ signedUp' = signedUp)
        /\ ( /\ SignUpStep
             /\ ValidCredentials(last'.arg.username, last'.arg.password)
             /\ \/ last'.arg.fault # "none"
                \/ FindUser(users, last'.arg.username) # {} )
           => ( /\ last'.status \in {"Conflict", "InternalServerError"}
                /\ users' = users )
      ]_vars

\* A connection fault on the signUp of a fresh username, next to a stored user
C27_Witness ==
    /\ last.op = "signUp"
    /\ last.arg.fault = "conn"
    /\ last.status = "InternalServerError"
    /\ users # {}
    /\ FindUser(users, last.arg.username) = {}

====
